---- MODULE Spec2Model ----
(***************************************************************************)
(* State-machine model of src/app.py: the knowledge-base provisioner       *)
(* (download_knowledge_base_if_not_exists), the per-session chat turn      *)
(* generator (generate_completion) with its memory reconciliation, and the *)
(* collaborators it drives (get_tools, OpenAIAgent.stream_chat, the        *)
(* response_gen token iterator, gr.ChatInterface).                         *)
(*                                                                         *)
(* Python strings are TLA+ strings; a chat message is a record             *)
(* [role, content]; list positions are 0-based as in the source.           *)
(***************************************************************************)
EXTENDS Naturals, Sequences, FiniteSets, TLC

\* ------------------------------------------------------------------ bounds
MaxLen == 3       \* longest memory sequence drawn as an input
MaxH == 3         \* longest external history drawn as an input
MaxTokens == 2    \* tokens the engine streams in one turn
MaxTurns == 2     \* calls of generate_completion in one session

\* ------------------------------------------------------------- vocabulary
USER == "user"
Roles == {"user", "assistant", "system", "tool"}
Queries == {"q1"}
Tokens == {"a", "b"}
Contents == {"x", "y"}

Message(r, c) == [role |-> r, content |-> c]
InputMessages == {Message(r, c) : r \in Roles, c \in Contents}

RECURSIVE SeqsUpTo(_, _)
SeqsUpTo(S, n) ==
    IF n = 0 THEN {<<>>}
    ELSE LET shorter == SeqsUpTo(S, n - 1)
         IN  shorter \cup {Append(s, x) : s \in {t \in shorter : Len(t) = n - 1}, x \in S}

\* ------------------------------------------------------------------ state
VARIABLES
    fs,          \* data/azure-architect on disk: "absent" | "partial" | "complete"
    proc,        \* the process: "start" | "failed" | "serving"
    memory,      \* the session's ChatSummaryMemoryBuffer: retained messages
    history,     \* the UI's external history: sequence of <<user, assistant>> pairs
    pc,          \* position of the generate_completion generator
    query,       \* the query argument of the running turn
    answer_str,  \* local answer_str
    yielded,     \* the items the generator has yielded this turn
    tokens,      \* the tokens response_gen has produced this turn
    mem0,        \* memory as it was when generate_completion was called
    memR,        \* memory as it was right after the "Manage memory" block
    turns        \* calls of generate_completion so far

vars == <<fs, proc, memory, history, pc, query, answer_str, yielded, tokens,
          mem0, memR, turns>>

turnVars == <<query, answer_str, yielded, tokens, mem0, memR, turns>>

\* ------------------------------------------------- pure helpers of the turn
\* chat_list[:n]
Slice(chat_list, n) == SubSeq(chat_list, 1, n)

\* [i for i, msg in enumerate(chat_list) if msg.role == MessageRole.USER]
user_index(chat_list) ==
    SelectSeq([k \in 1..Len(chat_list) |-> k - 1],
              LAMBDA i : chat_list[i + 1].role = USER)

\* plausible slip: drop only the last user turn when memory is ahead of the UI
manage_memory_last_turn(chat_list, hist) ==
    IF Len(chat_list) # 0
    THEN LET ui == user_index(chat_list)
         IN  IF Len(ui) > Len(hist)
             THEN Slice(chat_list, ui[Len(ui)])
             ELSE chat_list
    ELSE chat_list

\* plausible slip: off by one in both the comparison and the index
manage_memory_off_by_one(chat_list, hist) ==
    IF Len(chat_list) # 0
    THEN LET ui == user_index(chat_list)
         IN  IF Len(ui) >= Len(hist) /\ Len(hist) >= 1
             THEN Slice(chat_list, ui[Len(hist)])
             ELSE chat_list
    ELSE chat_list

\* plausible slip: the slice keeps the orphaned user message itself
manage_memory_inclusive(chat_list, hist) ==
    IF Len(chat_list) # 0
    THEN LET ui == user_index(chat_list)
         IN  IF Len(ui) > Len(hist)
             THEN Slice(chat_list, ui[Len(hist) + 1] + 1)
             ELSE chat_list
    ELSE chat_list

\* plausible slip: a diverged history resets memory instead of truncating it,
\* and the reset is applied whenever memory holds a user message
manage_memory_reset(chat_list, hist) ==
    IF Len(chat_list) # 0
    THEN LET ui == user_index(chat_list)
         IN  IF Len(ui) > 0
             THEN <<>>
             ELSE chat_list
    ELSE chat_list

\* The "Manage memory" block: the value memory holds after it.
manage_memory(chat_list, hist) ==
    IF Len(chat_list) # 0
    THEN LET ui == user_index(chat_list)
         IN  IF Len(ui) > Len(hist)
             THEN LET user_index_to_remove == ui[Len(hist) + 1]
                  IN  Slice(chat_list, user_index_to_remove)
             ELSE chat_list
    ELSE chat_list

\* plausible slip: yield the delta instead of the accumulated answer
accumulate_delta(answer, token) == token

\* answer_str += token
accumulate(answer, token) == answer \o token

\* ---------------------------------------------------------------- startup
Init ==
    /\ fs = "absent"
    /\ proc = "start"
    /\ memory = <<>>
    /\ history = <<>>
    /\ pc = "idle"
    /\ query = ""
    /\ answer_str = ""
    /\ yielded = <<>>
    /\ tokens = <<>>
    /\ mem0 = <<>>
    /\ memR = <<>>
    /\ turns = 0

\* download_knowledge_base_if_not_exists(), called once by __main__.
\* The directory is created before the fetch; a failing fetch raises and the
\* process ends before launch_ui(); the directory stays.
download_knowledge_base_if_not_exists ==
    /\ proc = "start"
    /\ IF fs # "absent"
       THEN /\ proc' = "serving"
            /\ fs' = fs
       ELSE \E outcome \in {"fetched", "fetch_raises", "makedirs_raises"} :
              /\ fs' = CASE outcome = "fetched" -> "complete"
                         [] outcome = "fetch_raises" -> "partial"
                         [] OTHER -> "absent"
              /\ proc' = IF outcome = "fetched" THEN "serving" ELSE "failed"
    /\ UNCHANGED <<memory, history, pc, turnVars>>

\* The program is started again after a startup that ended in an exception.
run_main_again ==
    /\ proc = "failed"
    /\ proc' = "start"
    /\ UNCHANGED <<fs, memory, history, pc, turnVars>>

\* ------------------------------------------------------------------- turn
\* generate_completion(query, history, memory) up to the "Manage memory"
\* block and its logging.
generate_completion(q) ==
    /\ proc = "serving"
    /\ pc = "idle"
    /\ turns < MaxTurns
    /\ turns' = turns + 1
    /\ query' = q
    /\ mem0' = memory
    /\ memory' = manage_memory(memory, history)
    /\ memR' = memory'
    /\ answer_str' = ""
    /\ yielded' = <<>>
    /\ tokens' = <<>>
    /\ pc' = "managed"
    /\ UNCHANGED <<fs, proc, history>>

\* tools = get_tools(db_collection="azure-architect") returns.
get_tools_returns ==
    /\ pc = "managed"
    /\ pc' = "tools"
    /\ UNCHANGED <<fs, proc, memory, history, turnVars>>

\* get_tools raises (the persistent store cannot be opened): nothing in
\* generate_completion catches it.
get_tools_raises ==
    /\ pc = "managed"
    /\ pc' = "raised"
    /\ UNCHANGED <<fs, proc, memory, history, turnVars>>

\* OpenAIAgent.from_tools(memory=memory, ...) and agent.stream_chat(query):
\* the agent is bound to the session memory itself and has put the user
\* message (and the messages of any tool call) into it when stream_chat
\* returns the streaming response.
stream_chat_returns ==
    /\ pc = "tools"
    /\ \E tool_msgs \in {<<>>, <<Message("assistant", "call"), Message("tool", "passages")>>} :
         memory' = Append(memory, Message(USER, query)) \o tool_msgs
    /\ answer_str' = ""
    /\ pc' = "streaming"
    /\ UNCHANGED <<fs, proc, history, query, yielded, tokens, mem0, memR, turns>>

\* agent.stream_chat(query) raises (generation engine failure).
stream_chat_raises ==
    /\ pc = "tools"
    /\ pc' = "raised"
    /\ UNCHANGED <<fs, proc, memory, history, turnVars>>

\* One round of `for token in completion.response_gen`: answer_str += token;
\* yield answer_str.
response_gen_token(token) ==
    /\ pc = "streaming"
    /\ Len(tokens) < MaxTokens
    /\ tokens' = Append(tokens, token)
    /\ answer_str' = accumulate(answer_str, token)
    /\ yielded' = Append(yielded, answer_str')
    /\ UNCHANGED <<fs, proc, memory, history, pc, query, mem0, memR, turns>>

\* response_gen is exhausted: the engine writes the assistant message into
\* memory, the loop ends, the sources are logged and the generator returns.
response_gen_ends ==
    /\ pc = "streaming"
    /\ memory' = Append(memory, Message("assistant", answer_str))
    /\ pc' = "done"
    /\ UNCHANGED <<fs, proc, history, turnVars>>

\* response_gen raises in the middle of the loop.
response_gen_raises ==
    /\ pc = "streaming"
    /\ pc' = "raised"
    /\ UNCHANGED <<fs, proc, memory, history, turnVars>>

\* The consumer closes the generator while it is suspended at `yield`.
generator_closed ==
    /\ pc = "streaming"
    /\ Len(yielded) > 0
    /\ pc' = "closed"
    /\ UNCHANGED <<fs, proc, memory, history, turnVars>>

\* --------------------------------------------------------------------- UI
\* gr.ChatInterface after a finished stream: the pair joins the history.
ui_turn_done ==
    /\ pc = "done"
    /\ history' = Append(history, <<query, answer_str>>)
    /\ pc' = "idle"
    /\ UNCHANGED <<fs, proc, memory, turnVars>>

\* gr.ChatInterface after a stopped stream: the partial pair stays displayed.
ui_turn_stopped ==
    /\ pc = "closed"
    /\ history' = Append(history, <<query, answer_str>>)
    /\ pc' = "idle"
    /\ UNCHANGED <<fs, proc, memory, turnVars>>

\* gr.ChatInterface after the generator raised: an error is displayed, the
\* history keeps its pairs, the session goes on.
ui_turn_failed ==
    /\ pc = "raised"
    /\ pc' = "idle"
    /\ UNCHANGED <<fs, proc, memory, history, turnVars>>

\* The user removes trailing pairs in the UI (undo, retry, clear).
ui_edit_history ==
    /\ pc = "idle"
    /\ \E n \in 0..(Len(history) - 1) : history' = Slice(history, n)
    /\ UNCHANGED <<fs, proc, memory, pc, turnVars>>

\* ---------------------------------------------------------- specifications
Next ==
    \/ download_knowledge_base_if_not_exists
    \/ run_main_again
    \/ \E q \in Queries : generate_completion(q)
    \/ get_tools_returns
    \/ get_tools_raises
    \/ stream_chat_returns
    \/ stream_chat_raises
    \/ \E t \in Tokens : response_gen_token(t)
    \/ response_gen_ends
    \/ response_gen_raises
    \/ generator_closed
    \/ ui_turn_done
    \/ ui_turn_stopped
    \/ ui_turn_failed
    \/ ui_edit_history

Spec == Init /\ [][Next]_vars

\* One session served from a provisioned store.
InitServing ==
    /\ fs = "complete"
    /\ proc = "serving"
    /\ memory = <<>>
    /\ history = <<>>
    /\ pc = "idle"
    /\ query = ""
    /\ answer_str = ""
    /\ yielded = <<>>
    /\ tokens = <<>>
    /\ mem0 = <<>>
    /\ memR = <<>>
    /\ turns = 0

\* Every turn runs to completion and the user never edits the history.
NextNoEdit ==
    \/ \E q \in Queries : generate_completion(q)
    \/ get_tools_returns
    \/ stream_chat_returns
    \/ \E t \in Tokens : response_gen_token(t)
    \/ response_gen_ends
    \/ ui_turn_done

SpecNoEdit == InitServing /\ [][NextNoEdit]_vars

\* generate_completion called with any memory and any external history, run
\* up to the point where the query has been handed to the engine.
HistoryOfLen(h) == [i \in 1..h |-> <<"q1", "a">>]

InitAnyInput ==
    /\ fs = "complete"
    /\ proc = "serving"
    /\ memory \in SeqsUpTo(InputMessages, MaxLen)
    /\ history \in {HistoryOfLen(h) : h \in 0..MaxH}
    /\ pc = "idle"
    /\ query = ""
    /\ answer_str = ""
    /\ yielded = <<>>
    /\ tokens = <<>>
    /\ mem0 = <<>>
    /\ memR = <<>>
    /\ turns = 0

NextAnyInput ==
    \/ \E q \in Queries : generate_completion(q)
    \/ get_tools_returns
    \/ get_tools_raises
    \/ stream_chat_returns
    \/ stream_chat_raises

SpecAnyInput == InitAnyInput /\ [][NextAnyInput]_vars

\* ------------------------------------------------------------- properties
CountUser(s) == Cardinality({i \in DOMAIN s : s[i].role = USER})

IsPrefix(s, t) == Len(s) <= Len(t) /\ SubSeq(t, 1, Len(s)) = s

RECURSIVE JoinTokens(_)
JoinTokens(ts) == IF ts = <<>> THEN "" ELSE Head(ts) \o JoinTokens(Tail(ts))

\* C1: when memory holds more USER messages than the external history has
\* pairs (H < U), the memory left by the "Manage memory" block is exactly
\* the messages that preceded the (H+1)-th USER message, and it holds H
\* USER messages.
C1_ReconciliationTruncation ==
    (pc = "managed" /\ Len(history) < CountUser(mem0)) =>
        /\ Len(memory) < Len(mem0)
        /\ memory = SubSeq(mem0, 1, Len(memory))
        /\ mem0[Len(memory) + 1].role = USER
        /\ CountUser(memory) = Len(history)

C1_Witness ==
    /\ pc = "managed"
    /\ Len(history) >= 1
    /\ CountUser(mem0) > Len(history)
    /\ Len(memory) >= 2
    /\ Len(memory) < Len(mem0)

\* C2: at the moment the query is handed to the engine (get_tools has
\* returned, stream_chat has not yet been called) memory holds at most H
\* USER messages, and it is the memory the "Manage memory" block left.
C2_UserCountAtMostH ==
    (pc = "tools") => (CountUser(memory) <= Len(history) /\ memory = memR)

C2_Witness ==
    /\ pc = "tools"
    /\ Len(history) >= 1
    /\ CountUser(mem0) > Len(history)
    /\ CountUser(memory) = Len(history)

\* C3: when the external history has at least as many pairs as memory has
\* USER messages (H >= U, empty memory included), the "Manage memory" block
\* leaves memory unchanged.
C3_ReconciliationNoOp ==
    (pc = "managed" /\ Len(history) >= CountUser(mem0)) => memory = mem0

C3_Witness ==
    /\ pc = "managed"
    /\ CountUser(mem0) >= 1
    /\ Len(history) >= CountUser(mem0)
    /\ Len(mem0) > CountUser(mem0)
    /\ memory = mem0

\* C4: running the "Manage memory" block a second time with the same
\* external history changes nothing more: reconciling the reconciled memory
\* gives the reconciled memory.
C4_ReconciliationIdempotent ==
    (pc = "managed") => manage_memory(memory, history) = memory

C4_Witness ==
    /\ pc = "managed"
    /\ CountUser(mem0) >= Len(history) + 2
    /\ memory # mem0
    /\ memory # <<>>

\* C5 as stated: with an empty external history and a non-empty memory,
\* memory is empty after the "Manage memory" block.
C5_EmptyHistoryEmptiesMemory ==
    (pc = "managed" /\ Len(history) = 0 /\ mem0 # <<>>) => memory = <<>>

\* C5 as amended: with an empty external history and a non-empty memory, the
\* block keeps exactly the messages that precede the first USER message (all
\* of memory when it holds no USER message), so memory is empty afterwards
\* exactly when its first message is a USER message.
C5_EmptyHistoryKeepsLeadingNonUser ==
    (pc = "managed" /\ Len(history) = 0 /\ mem0 # <<>>) =>
        /\ IsPrefix(memory, mem0)
        /\ CountUser(memory) = 0
        /\ Len(memory) < Len(mem0) => mem0[Len(memory) + 1].role = USER
        /\ (memory = <<>>) <=> (mem0[1].role = USER)

C5_Witness ==
    /\ pc = "managed"
    /\ Len(history) = 0
    /\ Len(mem0) >= 2
    /\ mem0[1].role = "system"
    /\ mem0[2].role = USER
    /\ memory = <<mem0[1]>>

\* C6: every item generate_completion yields is the concatenation of all the
\* tokens the engine has produced so far, each item extends the previous one
\* as a prefix, and there is one item per engine token (the stream ends with
\* the engine's token stream).
C6_StreamMonotonic ==
    /\ Len(yielded) = Len(tokens)
    /\ \A i \in 1..Len(yielded) : yielded[i] = JoinTokens(SubSeq(tokens, 1, i))
    /\ \A i \in 1..(Len(yielded) - 1) : IsPrefix(yielded[i], yielded[i + 1])

C6_Witness ==
    /\ pc = "done"
    /\ Len(yielded) = 2
    /\ yielded[1] = "a"
    /\ yielded[2] = "ab"

\* C7 as stated: when the consumer closes the stream before it completes, or
\* the turn ends in an exception, memory equals the memory right after
\* reconciliation (nothing of the turn is in it).
C7_IncompleteTurnLeavesNoTrace ==
    (pc \in {"closed", "raised"}) => memory = memR

\* C8 as stated: no turn-level error escapes generate_completion as an
\* exception (each is turned into an item of the stream).
C8_NoExceptionEscapes ==
    pc # "raised"

\* C9 as stated: download_knowledge_base_if_not_exists returns normally (the
\* process goes on to serve) only if the complete dataset is at the local path.
C9_ReturnsOnlyWithCompleteData ==
    (proc = "serving") => fs = "complete"

\* C10: in a session where every turn completes and the history is never
\* edited, the "Manage memory" block of every turn leaves memory as it found
\* it, and memory never holds more USER messages than the history has pairs.
C10_NoTruncationWithoutDivergence ==
    (pc = "managed") => (memory = mem0 /\ CountUser(mem0) <= Len(history))

C10_Witness ==
    /\ pc = "managed"
    /\ turns = 2
    /\ Len(history) = 1
    /\ Len(mem0) >= 2
    /\ memory = mem0

====
